---- MODULE Spec2Model ----
(***************************************************************************)
(* Model of the nutritional-analysis repository.                           *)
(*                                                                         *)
(*   FoodClassifier  (src/food_classifier.py): upload_image, predict_image,*)
(*                   estimate_weight, get_nutritional_facts                *)
(*   LabelExtractor  (src/label_extraction.py): process_label, which runs  *)
(*                   extract_nutritional_info on the recognised text       *)
(*                                                                         *)
(* Optional Python values (None or a value) are sequences of length 0 or 1.*)
(* Weights are in 1/1000 g, per-100g nutrient values in 1/1000 of their    *)
(* unit, record amounts in 1/100 of their unit; all arithmetic is exact.   *)
(***************************************************************************)
EXTENDS Integers, Sequences, FiniteSets, TLC

VARIABLES
    uploaded_image_path,  \* FoodClassifier.uploaded_image_path
    class_name,           \* FoodClassifier.class_name
    max_weight,           \* FoodClassifier.max_weight
    lastOp,               \* the FoodClassifier method that ran last
    contours,             \* pixel areas handed to the last estimate_weight
    calib,                \* calibration arguments of the last estimate_weight
    arg_food_name,        \* food_name argument of the last get_nutritional_facts
    arg_quantity,         \* quantity_in_grams argument of that call
    server,               \* status codes the server answers, in order
    data,                 \* JSON body of the 200 response, if one was read
    sent,                 \* number of HTTP requests put on the wire
    query,                \* search_terms of the request URL
    scale_qty,            \* the quantity the scale factor was computed from
    printed,              \* the message the call printed
    ret,                  \* the value the call returned
    extracted_text,       \* LabelExtractor.extracted_text
    df_transposed         \* LabelExtractor.df_transposed

foodVars == <<uploaded_image_path, class_name, max_weight, lastOp, contours,
              calib, arg_food_name, arg_quantity, server, data, sent, query,
              scale_qty, printed, ret>>
labelVars == <<extracted_text, df_transposed>>
vars == <<foodVars, labelVars>>

None == <<>>
Some(x) == <<x>>

(***************************************************************************)
(* Bounds of the model.                                                    *)
(***************************************************************************)
MaxContours == 3
MaxResponses == 7
MaxLines == 2

(***************************************************************************)
(* FoodClassifier                                                          *)
(***************************************************************************)
ClassNames == <<"apple", "pizza">>
UploadNames == {"photo.jpg"}

upload_image ==
    /\ \E f \in UploadNames : uploaded_image_path' = Some(f)
    /\ lastOp' = "upload_image"
    /\ contours' = <<>>
    /\ calib' = None
    /\ arg_food_name' = None
    /\ arg_quantity' = None
    /\ server' = <<>>
    /\ data' = None
    /\ sent' = 0
    /\ query' = None
    /\ scale_qty' = None
    /\ printed' = "Uploaded image"
    /\ ret' = None
    /\ UNCHANGED <<class_name, max_weight, labelVars>>

predict_image ==
    /\ lastOp' = "predict_image"
    /\ contours' = <<>>
    /\ calib' = None
    /\ arg_food_name' = None
    /\ arg_quantity' = None
    /\ server' = <<>>
    /\ data' = None
    /\ sent' = 0
    /\ query' = None
    /\ scale_qty' = None
    /\ ret' = None
    /\ IF uploaded_image_path = None
       THEN /\ printed' = "Please upload an image first."
            /\ UNCHANGED class_name
       ELSE /\ \E predicted_class \in 1..Len(ClassNames) :
                  class_name' = Some(ClassNames[predicted_class])
            /\ printed' = "Predicted Class"
    /\ UNCHANGED <<uploaded_image_path, max_weight, labelVars>>

(* estimate_weight: the loop over the contours, lines 63-70 *)
ContourWeight(area, c) == area * (c.ratio10 * c.ratio10) * c.height_cm * c.density10

(* mutation: the estimates are added up *)
KeepSum(acc, weight_g) == acc + weight_g

(* lines 69-70: if weight_g > max_weight: max_weight = weight_g *)
KeepMax(acc, weight_g) == IF weight_g > acc THEN weight_g ELSE acc

RECURSIVE MaxOverContours(_, _, _)
MaxOverContours(cs, c, acc) ==
    IF cs = <<>> THEN acc
    ELSE MaxOverContours(Tail(cs), c, KeepMax(acc, ContourWeight(Head(cs), c)))

ContourAreas == {0, 40, 250}
ContourLists == UNION {[1..n -> ContourAreas] : n \in 0..MaxContours}
Calibrations == [ratio10 : {1, 2}, height_cm : {2}, density10 : {9}]

estimate_weight ==
    /\ lastOp' = "estimate_weight"
    /\ arg_food_name' = None
    /\ arg_quantity' = None
    /\ server' = <<>>
    /\ data' = None
    /\ sent' = 0
    /\ query' = None
    /\ scale_qty' = None
    /\ ret' = None
    /\ IF uploaded_image_path = None
       THEN /\ printed' = "Please upload an image first."
            /\ contours' = <<>>
            /\ calib' = None
            /\ UNCHANGED max_weight
       ELSE /\ \E cs \in ContourLists, c \in Calibrations :
                  /\ contours' = cs
                  /\ calib' = Some(c)
                  /\ max_weight' = Some(MaxOverContours(cs, c, 0))
            /\ printed' = "Estimated Weight"
    /\ UNCHANGED <<uploaded_image_path, class_name, labelVars>>

(* Python's `a or b` on optional values: b when a is None or falsy *)
Falsy(a, zero) == a = None \/ a[1] = zero
PyOr(a, b, zero) == IF Falsy(a, zero) THEN b ELSE a

(* dict.get(key, default) on a dict modelled as a function *)
DictGet(d, key, default) == IF key \in DOMAIN d THEN d[key] ELSE default

(* urllib3 Retry(total=5, status_forcelist=...) driving session.get *)
RetryTotal == 5
StatusForcelist == {429, 500, 502, 503, 504}

(* mutation: the budget is spent one response early *)
IsExhaustedEarly(total) == total <= 0

(* Retry.is_exhausted() after a retry was counted *)
IsExhausted(total) == total < 0

RECURSIVE SessionGet(_, _, _)
SessionGet(responses, i, total) ==
    IF responses[i] \in StatusForcelist
    THEN IF IsExhausted(total - 1)
         THEN [sent |-> i, raised |-> TRUE, status |-> responses[i]]
         ELSE SessionGet(responses, i + 1, total - 1)
    ELSE [sent |-> i, raised |-> FALSE, status |-> responses[i]]

(* response.raise_for_status() *)
RaisesForStatus(status) == status >= 400 /\ status < 600

(* mutation: the quotient is truncated *)
Round2Truncates(num, den) == num \div den

(* round(x, 2) of the exact quotient num / den, counted in hundredths *)
Round2(num, den) ==
    LET q == num \div den
        r == num % den
    IN  IF 2 * r < den THEN q
        ELSE IF 2 * r > den THEN q + 1
        ELSE IF q % 2 = 0 THEN q ELSE q + 1

(* the dict literal of lines 108-116: key -> field read from nutriments *)
FactFields ==
    <<  <<"Calories (kcal)", "energy_100g">>,
        <<"Fat (g)", "fat_100g">>,
        <<"Protein (g)", "proteins_100g">>,
        <<"Carbohydrates (g)", "carbohydrates_100g">>,
        <<"Fiber (g)", "fiber_100g">>,
        <<"Sugars (g)", "sugars_100g">>,
        <<"Sodium (mg)", "sodium_100g">>  >>

FactKeys == {FactFields[i][1] : i \in 1..Len(FactFields)}
FieldOf(key) == (CHOOSE i \in 1..Len(FactFields) : FactFields[i][1] = key)

(* value in 1/1000, quantity in 1/1000 g: value * quantity / 100 in 1/100 *)
ScaleDen == 1000000
ScaledAmount(nutriments, field, quantity) ==
    Round2(DictGet(nutriments, field, 0) * quantity, ScaleDen)

nutritional_facts(nutriments, quantity) ==
    [key \in FactKeys |->
        ScaledAmount(nutriments, FactFields[FieldOf(key)][2], quantity)]

(* inputs of get_nutritional_facts: arguments, server answers, JSON bodies *)
FoodNameArgs == {None, Some(""), Some("banana")}
QuantityArgs == {None, Some(0), Some(100000)}

ServerScript(fails, failStatus, finalStatus) ==
    [i \in 1..MaxResponses |-> IF i <= fails THEN failStatus ELSE finalStatus]
ServerScripts ==
    {ServerScript(k, 503, f) : k \in 0..MaxResponses, f \in {200, 404}}

FullNutriments ==
    [energy_100g |-> 18125, fat_100g |-> 170, proteins_100g |-> 260,
     carbohydrates_100g |-> 13814, fiber_100g |-> 2400, sugars_100g |-> 10395,
     sodium_100g |-> 1]
PartialNutriments == [fat_100g |-> 335, sugars_100g |-> 2500]
EmptyDict == [k \in {} |-> 0]

Products ==
    {[nutriments |-> n] :
        n \in {FullNutriments, PartialNutriments, EmptyDict}}
    \cup {[product_name |-> "x"]}
Bodies ==
    {[count |-> 0, products |-> <<>>], [products |-> <<>>]}
    \cup {[count |-> 1, products |-> <<p>>] : p \in Products}
    \cup {[count |-> 2, products |-> <<[nutriments |-> EmptyDict],
                                       [nutriments |-> FullNutriments]>>]}

UsageMsg == "Please provide both food name and quantity."
FetchErrorMsg == "Error fetching data from Open Food Facts API"
NotFoundMsg == "No results found"
(* mutation: the no-data branch prints the not-found message *)
NoDataMsgAsNotFound == "No results found"
NoDataMsg == "No nutritional data available"

(* mutation: the check fires only when both values are missing *)
PreconditionNeedsBoth(food_name, quantity) == food_name = None /\ quantity = None

(* mutation: the check tests truthiness, so a zero quantity is refused *)
PreconditionRefusesZero(food_name, quantity) ==
    food_name = None \/ Falsy(quantity, 0)

(* line 79: if food_name is None or quantity_in_grams is None *)
PreconditionFails(food_name, quantity) == food_name = None \/ quantity = None

get_nutritional_facts ==
    \E food_name_arg \in FoodNameArgs, quantity_arg \in QuantityArgs :
      LET food_name == PyOr(food_name_arg, class_name, "")
          quantity_in_grams == PyOr(quantity_arg, max_weight, 0)
      IN
      /\ lastOp' = "get_nutritional_facts"
      /\ contours' = <<>>
      /\ calib' = None
      /\ arg_food_name' = food_name_arg
      /\ arg_quantity' = quantity_arg
      /\ IF PreconditionFails(food_name, quantity_in_grams)
         THEN /\ printed' = UsageMsg
              /\ ret' = None
              /\ server' = <<>>
              /\ data' = None
              /\ sent' = 0
              /\ query' = None
              /\ scale_qty' = None
         ELSE \E responses \in ServerScripts :
              LET got == SessionGet(responses, 1, RetryTotal)
              IN
              /\ server' = responses
              /\ sent' = got.sent
              /\ query' = food_name
              /\ IF got.raised \/ RaisesForStatus(got.status)
                 THEN /\ printed' = FetchErrorMsg
                      /\ ret' = None
                      /\ data' = None
                      /\ scale_qty' = None
                 ELSE \E body \in Bodies :
                      LET product == body.products[1]
                          nutriments == DictGet(product, "nutriments", EmptyDict)
                      IN
                      /\ data' = Some(body)
                      /\ IF DictGet(body, "count", 0) = 0
                         THEN /\ printed' = NotFoundMsg
                              /\ ret' = None
                              /\ scale_qty' = None
                         ELSE IF DOMAIN nutriments = {}
                         THEN /\ printed' = NoDataMsg
                              /\ ret' = None
                              /\ scale_qty' = None
                         ELSE /\ printed' = ""
                              /\ scale_qty' = quantity_in_grams
                              /\ ret' = Some(nutritional_facts(nutriments,
                                                               quantity_in_grams[1]))
      /\ UNCHANGED <<uploaded_image_path, class_name, max_weight, labelVars>>

(***************************************************************************)
(* LabelExtractor.  A text is a sequence of symbols: a keyword of the      *)
(* label, or one character.  A regular expression is a sequence of nodes,  *)
(* matched with the backtracking order of Python's re module.              *)
(***************************************************************************)
Digit == {"0", "1", "2", "3", "4", "5", "6", "7", "8", "9"}
Space == {" ", "\n"}
Keywords ==
    {"Total", "Fat", "Saturated", "Trans", "Cholesterol", "Sodium",
     "Carbohydrate", "Carb", "Dietary", "Fiber", "Sugars", "Protein",
     "Calories", "Serving", "Serv", "size", "Servings", "servings", "per",
     "container", "cup", "DV", "Nutrition", "Facts"}
Alphabet == Digit \cup Space \cup Keywords \cup {"g", "m", "c", "%", ".", ":", "(", ")"}

Lit(s) == [t |-> "set", cs |-> {s}]
OneOf(cs) == [t |-> "set", cs |-> cs]
Star(cs) == [t |-> "star", cs |-> cs]
LazyStar(cs) == [t |-> "lazystar", cs |-> cs]
Alt(a, b) == [t |-> "alt", a |-> a, b |-> b]
Opt(a) == Alt(a, <<>>)
Open(n) == [t |-> "open", n |-> n]
Close(n) == [t |-> "close", n |-> n]
Group(n, a) == <<Open(n)>> \o a \o <<Close(n)>>

NoMatch == [ok |-> FALSE]

RECURSIVE MatchAt(_, _, _, _)
MatchAt(re, text, i, g) ==
    IF Len(re) = 0 THEN [ok |-> TRUE, end |-> i, g |-> g]
    ELSE
      LET n == Head(re)
          rest == Tail(re)
          here == i <= Len(text) /\ text[i] \in n.cs
      IN  CASE n.t = "set" ->
                 IF here THEN MatchAt(rest, text, i + 1, g) ELSE NoMatch
            [] n.t = "star" ->
                 IF here
                 THEN LET more == MatchAt(re, text, i + 1, g)
                      IN  IF more.ok THEN more ELSE MatchAt(rest, text, i, g)
                 ELSE MatchAt(rest, text, i, g)
            [] n.t = "lazystar" ->
                 LET now == MatchAt(rest, text, i, g)
                 IN  IF now.ok THEN now
                     ELSE IF here THEN MatchAt(re, text, i + 1, g) ELSE NoMatch
            [] n.t = "alt" ->
                 LET first == MatchAt(n.a \o rest, text, i, g)
                 IN  IF first.ok THEN first ELSE MatchAt(n.b \o rest, text, i, g)
            [] n.t = "open" ->
                 MatchAt(rest, text, i, [g EXCEPT ![n.n] = <<i, i>>])
            [] n.t = "close" ->
                 MatchAt(rest, text, i, [g EXCEPT ![n.n] = <<g[n.n][1], i>>])

(* re.search: the match at the leftmost position where the pattern matches *)
RECURSIVE SearchFrom(_, _, _, _)
SearchFrom(re, text, i, groups) ==
    IF i > Len(text) + 1 THEN NoMatch
    ELSE LET m == MatchAt(re, text, i, [n \in 1..groups |-> None])
         IN  IF m.ok THEN [ok |-> TRUE, start |-> i, end |-> m.end, g |-> m.g]
             ELSE SearchFrom(re, text, i + 1, groups)

search(re, text, groups) == SearchFrom(re, text, 1, groups)

(* match.groups(): the text of each group, None for a group left out *)
GroupText(m, text, n) ==
    IF m.g[n] = None THEN None ELSE Some(SubSeq(text, m.g[n][1], m.g[n][2] - 1))

Ws == <<Star(Space)>>
Digits1 == <<OneOf(Digit), Star(Digit)>>
Digits0 == <<Star(Digit)>>
NotNewlinePercent == Alphabet \ {"\n", "%"}
AnyChar == Alphabet \ {"\n"}

(* \d+\.?\d*g? *)
GramsDecimal == Digits1 \o <<Opt(<<Lit(".")>>)>> \o Digits0 \o <<Opt(<<Lit("g")>>)>>
(* \d+mg\s*\d*%? *)
MilligramsPercent ==
    Digits1 \o <<Lit("m"), Lit("g")>> \o Ws \o Digits0 \o <<Opt(<<Lit("%")>>)>>
(* \d+g\s*\d*% *)
GramsPercent == Digits1 \o <<Lit("g")>> \o Ws \o Digits0 \o <<Lit("%")>>
(* \d+g *)
Grams == Digits1 \o <<Lit("g")>>
(* [^\n%]+?\) *)
UpToParen == <<OneOf(NotNewlinePercent), LazyStar(NotNewlinePercent), Lit(")")>>

ServingsContainer1 ==
    Group(1, Digits1) \o Ws \o <<Lit("servings")>> \o Ws \o <<Lit("per")>> \o Ws
    \o <<Lit("container")>>
ServingsContainer2 == <<Lit("Servings"), Lit(":")>> \o Ws \o Group(2, Digits1)
ServingSize1 == <<Lit("Serving")>> \o Ws \o <<Lit("size")>> \o Ws \o Group(1, UpToParen)
ServingSize2 ==
    <<Lit("Serv"), OneOf(AnyChar)>> \o Ws \o <<Lit("size"), Lit(":")>> \o Ws
    \o Group(2, UpToParen)
DietaryFiber1 ==
    <<Lit("Dietary")>> \o Ws \o <<Lit("Fiber")>> \o Ws \o Group(1, GramsPercent)
DietaryFiber2 == <<Lit("Fiber")>> \o Ws \o Group(2, GramsPercent)

(* lines 26-39 *)
patterns ==
    << [key |-> "servings_container", groups |-> 2,
        re |-> <<Alt(ServingsContainer1, ServingsContainer2)>>],
       [key |-> "serving_size", groups |-> 2,
        re |-> <<Alt(ServingSize1, ServingSize2)>>],
       [key |-> "calories", groups |-> 1,
        re |-> <<Lit("Calories")>> \o Ws \o Group(1, Digits1)],
       [key |-> "total_fat", groups |-> 1,
        re |-> <<Lit("Total")>> \o Ws \o <<Lit("Fat")>> \o Ws \o Group(1, GramsDecimal)],
       [key |-> "saturated_fat", groups |-> 1,
        re |-> <<Lit("Saturated")>> \o Ws \o <<Lit("Fat")>> \o Ws
               \o Group(1, GramsDecimal)],
       [key |-> "trans_fat", groups |-> 1,
        re |-> <<Lit("Trans")>> \o Ws \o <<Lit("Fat")>> \o Ws \o Group(1, GramsDecimal)],
       [key |-> "cholesterol", groups |-> 1,
        re |-> <<Lit("Cholesterol")>> \o Ws \o Group(1, MilligramsPercent)],
       [key |-> "sodium", groups |-> 1,
        re |-> <<Lit("Sodium")>> \o Ws \o Group(1, MilligramsPercent)],
       [key |-> "total_carbohydrate", groups |-> 1,
        re |-> <<Lit("Total")>> \o Ws
               \o <<Alt(<<Lit("Carbohydrate")>>, <<Lit("Carb"), Lit(".")>>)>> \o Ws
               \o Group(1, GramsPercent)],
       [key |-> "dietary_fiber", groups |-> 2,
        re |-> <<Alt(DietaryFiber1, DietaryFiber2)>>],
       [key |-> "total_sugars", groups |-> 1,
        re |-> <<Lit("Total")>> \o Ws \o <<Lit("Sugars")>> \o Ws \o Group(1, Grams)],
       [key |-> "protein", groups |-> 1,
        re |-> <<Lit("Protein")>> \o Ws \o Group(1, Grams)] >>

(* next((m for m in match.groups() if m), None) *)
RECURSIVE FirstTruthyGroup(_, _, _)
FirstTruthyGroup(m, text, n) ==
    IF n > Len(m.g) THEN None
    ELSE LET group == GroupText(m, text, n)
         IN  IF group # None /\ Len(group[1]) > 0 THEN group
             ELSE FirstTruthyGroup(m, text, n + 1)

(* mutation: the candidates are searched one after the other over the text *)
RawValueByPriority(p, text) ==
    LET n == Head(p.re)
        first == IF n.t = "alt" /\ Len(p.re) = 1
                 THEN search(n.a, text, p.groups) ELSE NoMatch
        match == IF first.ok THEN first ELSE search(p.re, text, p.groups)
    IN  IF match.ok THEN FirstTruthyGroup(match, text, 1) ELSE None

(* lines 44-45: data[key] *)
RawValue(p, text) ==
    LET match == search(p.re, text, p.groups)
    IN  IF match.ok THEN FirstTruthyGroup(match, text, 1) ELSE None

(* line 55: (\d+\.?\d*(?:mg|g|mcg)?)\s*(\d+%|\d+% DV)? *)
SplitPattern ==
    Group(1, Digits1 \o <<Opt(<<Lit(".")>>)>> \o Digits0
             \o <<Opt(<<Alt(<<Lit("m"), Lit("g")>>,
                            <<Alt(<<Lit("g")>>, <<Lit("m"), Lit("c"), Lit("g")>>)>>)>>)>>)
    \o Ws
    \o <<Opt(Group(2, <<Alt(Digits1 \o <<Lit("%")>>,
                            Digits1 \o <<Lit("%"), Lit(" "), Lit("DV")>>)>>))>>

(* Series.str.extract on one cell: a missing cell or no match gives NaN, NaN *)
str_extract(value) ==
    IF value = None THEN <<None, None>>
    ELSE LET m == search(SplitPattern, value[1], 2)
         IN  IF m.ok THEN <<GroupText(m, value[1], 1), GroupText(m, value[1], 2)>>
             ELSE <<None, None>>

(* mutation: a cell without a value is split as an empty weight *)
RowKeepsEmptyWeight(p, text) ==
    LET value == RawValue(p, text)
        split == str_extract(value)
    IN  [Nutrient |-> p.key, Value |-> value,
         Weight |-> IF value = None THEN Some(<<>>) ELSE split[1], DV |-> split[2]]

(* one row of df_transposed: Nutrient, Value, Weight, DV% *)
Row(p, text) ==
    LET value == RawValue(p, text)
        split == str_extract(value)
    IN  [Nutrient |-> p.key, Value |-> value, Weight |-> split[1], DV |-> split[2]]

extract_info(text) == [i \in 1..Len(patterns) |-> Row(patterns[i], text)]

(* recognised lines the label texts are built from *)
Lines ==
    << <<"Nutrition", " ", "Facts">>,
       <<"8", " ", "servings", " ", "per", " ", "container">>,
       <<"Servings", ":", " ", "4">>,
       <<"Serving", " ", "size", " ", "2", " ", "cup", " ", "(", "6", "0", "g", ")">>,
       <<"Serv", ".", " ", "size", ":", " ", "1", " ", "cup", " ", "(", "3", "0", "g", ")">>,
       <<"Serving", " ", "size", " ", ")", " ", "Calories", " ", "2", "5", "0">>,
       <<"Total", " ", "Fat", " ", "8", "g", " ", "1", "0", "%">>,
       <<"Saturated", " ", "Fat", " ", "1", ".", "5", "g", " ",
         "Trans", "Fat", " ", "0", "g">>,
       <<"Cholesterol", " ", "0", "m", "g", " ",
         "Sodium", " ", "1", "6", "0", "m", "g", " ", "7", "%">>,
       <<"Total", " ", "Carb", ".", " ", "3", "7", "g", " ", "1", "3", "%">>,
       <<"Dietary", " ", "Fiber", " ", "3", "g", " ", "1", "0", "%">>,
       <<"Fiber", " ", "2", "g", " ", "5", "%">>,
       <<"Total", " ", "Sugars", " ", "1", "2", "g", " ", "Protein", " ", "g", ")">> >>

RECURSIVE JoinLines(_)
JoinLines(ls) ==
    IF Len(ls) = 0 THEN <<>>
    ELSE IF Len(ls) = 1 THEN Lines[ls[1]]
    ELSE Lines[ls[1]] \o <<"\n">> \o JoinLines(Tail(ls))

(* what the OCR engine may return *)
Texts == {JoinLines(ls) : ls \in UNION {[1..n -> 1..Len(Lines)] : n \in 0..MaxLines}}

(* extract_nutritional_info(text), tabulated over the texts *)
extract_nutritional_info == [text \in Texts |-> extract_info(text)]

process_label ==
    /\ \E ocr \in Texts :
          /\ extracted_text' = Some(ocr)
          /\ df_transposed' = Some(extract_nutritional_info[ocr])
    /\ UNCHANGED foodVars

Init ==
    /\ uploaded_image_path = None
    /\ class_name = None
    /\ max_weight = None
    /\ lastOp = "__init__"
    /\ contours = <<>>
    /\ calib = None
    /\ arg_food_name = None
    /\ arg_quantity = None
    /\ server = <<>>
    /\ data = None
    /\ sent = 0
    /\ query = None
    /\ scale_qty = None
    /\ printed = ""
    /\ ret = None
    /\ extracted_text = None
    /\ df_transposed = None

FoodNext == upload_image \/ predict_image \/ estimate_weight \/ get_nutritional_facts

SpecFood == Init /\ [][FoodNext]_vars

LabelNext == process_label

SpecLabel == Init /\ [][LabelNext]_vars

Next == FoodNext \/ LabelNext

Spec == Init /\ [][Next]_vars

(***************************************************************************)
(* Properties of FoodClassifier, checked under SpecFood                    *)
(***************************************************************************)
Looked == lastOp = "get_nutritional_facts"
FirstProduct == data[1].products[1]
HasCount == "count" \in DOMAIN data[1] /\ data[1].count # 0
HasNutrientData ==
    /\ "nutriments" \in DOMAIN FirstProduct
    /\ DOMAIN FirstProduct.nutriments # {}

(* C1: a lookup whose food name or weight was neither passed nor stored    *)
(* reports the usage error, returns no record and sends no request.        *)
C1_MissingInputIsUsageError ==
    (Looked /\ (   (arg_food_name = None /\ class_name = None)
                \/ (arg_quantity = None /\ max_weight = None)))
        => (printed = UsageMsg /\ ret = None /\ sent = 0 /\ query = None)

C1_Witness ==
    /\ Looked
    /\ arg_food_name = Some("banana")
    /\ arg_quantity = None
    /\ max_weight = None
    /\ printed = UsageMsg
    /\ sent = 0

(* C2: the outcome reported for count = 0 is the not-found one, the outcome*)
(* for a first product without nutrient data is the no-data one, neither   *)
(* carries a record, and the two differ from each other and from the       *)
(* usage error of a call that looked nothing up.                           *)
C2_FailureKindsAreDistinct ==
    Looked =>
        /\ (data # None /\ ~HasCount)
              => (ret = None /\ printed = NotFoundMsg
                             /\ printed \notin {NoDataMsg, UsageMsg})
        /\ (data # None /\ HasCount /\ ~HasNutrientData)
              => (ret = None /\ printed = NoDataMsg
                             /\ printed \notin {NotFoundMsg, UsageMsg})
        /\ (printed = UsageMsg) => (sent = 0 /\ data = None)

C2_Witness ==
    /\ Looked
    /\ data # None
    /\ HasCount
    /\ ~HasNutrientData
    /\ printed = NoDataMsg

(* C3: five 503 answers and then a 200 make the lookup succeed on the      *)
(* sixth response; six 503 answers end it in the reported fetch failure,   *)
(* with no record and exactly six requests sent.                           *)
C3_RetryBudget ==
    (Looked /\ sent > 0) =>
        /\ ((\A i \in 1..5 : server[i] = 503) /\ server[6] = 200)
              => (sent = 6 /\ data # None /\ printed # FetchErrorMsg)
        /\ (\A i \in 1..6 : server[i] = 503)
              => (sent = 6 /\ data = None /\ ret = None
                           /\ printed = FetchErrorMsg)

C3_Witness ==
    /\ Looked
    /\ sent = 6
    /\ \A i \in 1..6 : server[i] = 503
    /\ printed = FetchErrorMsg

(* C4: a returned record has exactly the seven canonical keys and each     *)
(* value is the per-100g value of its nutrient (0 when absent) times       *)
(* weight / 100, rounded to two decimals; at 100 g it is the per-100g      *)
(* value rounded to two decimals.                                          *)
CanonicalKeys ==
    {"Calories (kcal)", "Fat (g)", "Protein (g)", "Carbohydrates (g)",
     "Fiber (g)", "Sugars (g)", "Sodium (mg)"}
SourceField ==
    [k \in CanonicalKeys |->
        CASE k = "Calories (kcal)" -> "energy_100g"
          [] k = "Fat (g)" -> "fat_100g"
          [] k = "Protein (g)" -> "proteins_100g"
          [] k = "Carbohydrates (g)" -> "carbohydrates_100g"
          [] k = "Fiber (g)" -> "fiber_100g"
          [] k = "Sugars (g)" -> "sugars_100g"
          [] k = "Sodium (mg)" -> "sodium_100g"]
Per100g(k) ==
    IF SourceField[k] \in DOMAIN FirstProduct.nutriments
    THEN FirstProduct.nutriments[SourceField[k]] ELSE 0
Dist(a, b) == IF a >= b THEN a - b ELSE b - a
(* r is num / den rounded to the nearest integer, a tie going to the even one *)
IsNearest(r, num, den) ==
    /\ 2 * Dist(num, r * den) <= den
    /\ (2 * Dist(num, r * den) = den) => (r % 2 = 0)

C4_RecordIsScaledSource ==
    (Looked /\ ret # None) =>
        /\ DOMAIN ret[1] = CanonicalKeys
        /\ \A k \in CanonicalKeys :
              /\ IsNearest(ret[1][k], Per100g(k) * scale_qty[1], 1000 * 1000)
              /\ (scale_qty[1] = 100 * 1000)
                    => IsNearest(ret[1][k], Per100g(k), 10)

C4_Witness ==
    /\ Looked
    /\ ret # None
    /\ scale_qty \notin {Some(0), Some(100000)}
    /\ "fiber_100g" \notin DOMAIN FirstProduct.nutriments
    /\ ret[1]["Fiber (g)"] = 0
    /\ ret[1]["Fat (g)"] > 0

(* C5: estimate_weight stores the largest single-contour estimate, not the *)
(* sum: 0 without contours, the estimate of the only contour, and with     *)
(* several contours the estimate of the largest.                           *)
Estimate(area) ==
    area * calib[1].ratio10 * calib[1].ratio10 * calib[1].height_cm
         * calib[1].density10
C5_MaxNotSum ==
    (lastOp = "estimate_weight" /\ calib # None) =>
        /\ max_weight # None
        /\ (Len(contours) = 0) => (max_weight[1] = 0)
        /\ (Len(contours) = 1) => (max_weight[1] = Estimate(contours[1]))
        /\ (Len(contours) >= 1) =>
              /\ \E i \in 1..Len(contours) : max_weight[1] = Estimate(contours[i])
              /\ \A i \in 1..Len(contours) : Estimate(contours[i]) <= max_weight[1]

C5_Witness ==
    /\ lastOp = "estimate_weight"
    /\ contours = <<40, 250, 40>>
    /\ max_weight = Some(Estimate(250))

(* C6: a stored weight of 0 is a valid weight: the lookup that has a food  *)
(* name and passes no quantity reports no usage error, and when the        *)
(* database product has nutrient data it returns a record of seven zeros.  *)
C6_ZeroWeightPropagates ==
    (Looked /\ max_weight = Some(0) /\ arg_quantity = None
            /\ (arg_food_name = Some("banana") \/ class_name # None)) =>
        /\ printed # UsageMsg
        /\ sent > 0
        /\ (data # None /\ HasCount /\ HasNutrientData)
              => (ret # None /\ \A k \in CanonicalKeys : ret[1][k] = 0)

C6_Witness ==
    /\ Looked
    /\ max_weight = Some(0)
    /\ arg_quantity = None
    /\ class_name # None
    /\ ret # None
    /\ \A k \in CanonicalKeys : ret[1][k] = 0
    /\ FirstProduct.nutriments["fat_100g"] > 0

(* C10: a food name and a quantity passed by the caller are the values     *)
(* used for the query and for the scale factor, whatever is stored,        *)
(* including the quantity 0 and the empty name; the stored values stay.    *)
C10_ExplicitArgumentsAreUsed ==
    (Looked /\ arg_food_name # None /\ arg_quantity # None
            /\ class_name # None /\ max_weight # None) =>
        /\ query = arg_food_name
        /\ ret # None => scale_qty = arg_quantity

(***************************************************************************)
(* Properties of LabelExtractor, checked under SpecLabel                   *)
(***************************************************************************)
ConfiguredKeys ==
    <<"servings_container", "serving_size", "calories", "total_fat",
      "saturated_fat", "trans_fat", "cholesterol", "sodium",
      "total_carbohydrate", "dietary_fiber", "total_sugars", "protein">>
Table == df_transposed[1]
RowOf(key) == Table[CHOOSE i \in 1..Len(Table) : Table[i].Nutrient = key]
MatchesNothing(text) ==
    \A i \in 1..Len(patterns) : ~search(patterns[i].re, text, patterns[i].groups).ok
Contains(text, part) ==
    \E i \in 1..(Len(text) - Len(part) + 1) :
        SubSeq(text, i, i + Len(part) - 1) = part

(* C7: the table always has one row per configured key, a key without a    *)
(* raw value has no weight and no percentage, and a text that matches no   *)
(* pattern gives a table whose every field is absent.                      *)
C7_AbsentFieldsNotAnError ==
    (extracted_text # None) =>
        /\ df_transposed # None
        /\ [i \in 1..Len(Table) |-> Table[i].Nutrient] = ConfiguredKeys
        /\ \A i \in 1..Len(Table) :
              (Table[i].Value = None)
                  => (Table[i].Weight = None /\ Table[i].DV = None)
        /\ MatchesNothing(extracted_text[1]) =>
              \A i \in 1..Len(Table) :
                  /\ Table[i].Value = None
                  /\ Table[i].Weight = None
                  /\ Table[i].DV = None

C7_Witness ==
    /\ extracted_text = Some(<<"Nutrition", " ", "Facts">>)
    /\ df_transposed # None
    /\ \A i \in 1..Len(Table) : Table[i].Value = None /\ Table[i].Weight = None

(* C8: for a text containing "Total Fat 8g 10%" the total_fat row has the  *)
(* weight "8g" and the percentage "10%".                                   *)
TotalFatLine == <<"Total", " ", "Fat", " ", "8", "g", " ", "1", "0", "%">>
C8_TotalFatWeightAndPercent ==
    (extracted_text # None /\ Contains(extracted_text[1], TotalFatLine)) =>
        /\ RowOf("total_fat").Weight = Some(<<"8", "g">>)
        /\ RowOf("total_fat").DV = Some(<<"1", "0", "%">>)

(* C9: for a key with several candidates the raw value is the capture of   *)
(* the first candidate whenever that candidate matches somewhere in the    *)
(* text, wherever a later candidate matches.                               *)
Candidates ==
    [servings_container |-> <<ServingsContainer1, ServingsContainer2>>,
     serving_size |-> <<ServingSize1, ServingSize2>>,
     dietary_fiber |-> <<DietaryFiber1, DietaryFiber2>>]
Alone(key, n) == search(Candidates[key][n], extracted_text[1], 2)
Capture(m) == FirstTruthyGroup(m, extracted_text[1], 1)

====
